---- MODULE Spec2Model ----
(***************************************************************************)
(* Model of the Common Assessment Tool backend: the auth router            *)
(* (app/auth/router.py), the clients router (app/clients/router.py) and    *)
(* the relational schema (app/models.py).  ClientService, the request      *)
(* schemas and the database session are not part of the source tree; the  *)
(* operators that stand for them follow the written specification.         *)
(*                                                                         *)
(* Time is counted in whole minutes, the unit of                           *)
(* ACCESS_TOKEN_EXPIRE_MINUTES; the clock and every exp claim are whole    *)
(* numbers, as the JWT library reads them.                                 *)
(* An optional value is a set: {} is None / NULL, {v} is the value v.      *)
(***************************************************************************)
EXTENDS Integers, Sequences, FiniteSets, TLC

\* ------------------------------------------------------------------ bounds
\* The clock runs to MaxTime; tokens are issued up to minute MaxIssueTime and
\* presented at any minute; a caller holds at most MaxTokens tokens; client
\* ids run to MaxClients.
MaxTime == 31
MaxIssueTime == 1
MaxTokens == 1
MaxClients == 2

\* ------------------------------------------------- app/auth/router.py:26-28
SECRET_KEY == "your-secret-key-here"
ACCESS_TOKEN_EXPIRE_MINUTES == 30
FALLBACK_EXPIRE_MINUTES == 15

\* A key the server does not hold, used by callers who forge tokens.
OTHER_KEY == "attacker-key"

None == {}
Some(v) == {v}

VARIABLES users, clients, cases, next_client_id, now, tokens, last

vars == <<users, clients, cases, next_client_id, now, tokens, last>>
stores == <<users, clients, cases, next_client_id>>

\* ------------------------------------------------------ app/models.py:15-20
\* The members of the enum, by member name.
UserRole == [ADMIN |-> "admin", CASE_WORKER |-> "case_worker"]

\* Python attribute access UserRole.<name>: the member of that name, or an
\* AttributeError when the enum has no member of that name.
UserRoleAttr(name) ==
    IF name \in DOMAIN UserRole THEN Some(name) ELSE None

\* ------------------------------------------------- password hashing context
\* pwd_context.hash: a salted one-way hash; the salt is stored in the hash.
get_password_hash(salt, password) == <<"bcrypt", salt, password>>

\* pwd_context.verify: re-hash the plain password with the stored salt.
verify_password(plain_password, hashed_password) ==
    get_password_hash(hashed_password[2], plain_password) = hashed_password

\* ------------------------------------------------------------ identity store
Usernames == {"alice", "bob", "carol"}
LoginNames == {"alice", "bob", "carol"}
Passwords == {"secret123!", "wrong"}

SeedUsers ==
    { [id |-> 1, username |-> "alice", email |-> "alice@x.org",
       hashed_password |-> get_password_hash(1, "secret123!"),
       role |-> "ADMIN"],
      [id |-> 2, username |-> "bob", email |-> "bob@x.org",
       hashed_password |-> get_password_hash(2, "wrong"),
       role |-> "CASE_WORKER"] }

\* db.query(User).filter(User.username == username).first()
UserByName(username) == {u \in users : u.username = username}

\* ---------------------------------------------------------------- JWT (jose)
\* A claims set is the dict {"sub": ..., "exp": ...}; an absent key is None.
\* jwt.encode: the claims together with an HMAC of the claims under the key.
Sign(claims, key) == <<key, claims>>
jwt_encode(claims, key) == [claims |-> claims, sig |-> Sign(claims, key)]

\* jwt.decode: JWTError (None) when the signature does not verify, or when
\* the exp claim is present and lies before the current time (jose raises
\* ExpiredSignatureError, a JWTError, when exp < now); else the claims.
jwt_decode_noexp(token, key, t) ==
    IF token.sig # Sign(token.claims, key) THEN None
    ELSE Some(token.claims)
jwt_decode(token, key, t) ==
    IF token.sig # Sign(token.claims, key) THEN None
    ELSE IF \E e \in token.claims.exp : e < t THEN None
    ELSE Some(token.claims)

\* authenticate_user: the user of that name whose stored hash verifies.
authenticate_user_nopw(username, password) == UserByName(username)
authenticate_user(username, password) ==
    {u \in UserByName(username) : verify_password(password, u.hashed_password)}

\* create_access_token: expires_delta is an Optional[timedelta]; the test
\* "if expires_delta:" is a truth test, and timedelta(0) is false.
Truthy(expires_delta) == \E d \in expires_delta : d # 0

create_access_token(data, expires_delta, t) ==
    LET expire == IF Truthy(expires_delta)
                  THEN t + (CHOOSE d \in expires_delta : TRUE)
                  ELSE t + FALLBACK_EXPIRE_MINUTES
        to_encode == [sub |-> data.sub, exp |-> Some(expire)]
    IN  jwt_encode(to_encode, SECRET_KEY)

\* A credential is the content of the Authorization header: {} or {token}.
\* get_current_user: the user the credential resolves to, or 401.
\* Response statuses: OK (2xx), Unauthenticated (401), Forbidden (403),
\* Internal (500, an unhandled exception), NotFound (404), Conflict,
\* ValidationError.
Unauthorized == [status |-> "Unauthenticated", user |-> None]

get_current_user_anyuser(cred) ==
    IF cred = None THEN Unauthorized
    ELSE LET token == CHOOSE x \in cred : TRUE
             payload == jwt_decode(token, SECRET_KEY, now)
         IN  IF payload = None THEN Unauthorized
             ELSE LET username == (CHOOSE p \in payload : TRUE).sub
                  IN  IF username = None THEN Unauthorized
                      ELSE [status |-> "OK",
                            user |-> Some(CHOOSE u \in users : TRUE)]
get_current_user(cred) ==
    IF cred = None THEN Unauthorized
    ELSE LET token == CHOOSE x \in cred : TRUE
             payload == jwt_decode(token, SECRET_KEY, now)
         IN  IF payload = None THEN Unauthorized
             ELSE LET username == (CHOOSE p \in payload : TRUE).sub
                  IN  IF username = None THEN Unauthorized
                      ELSE LET user == UserByName(CHOOSE n \in username : TRUE)
                           IN  IF user = None THEN Unauthorized
                               ELSE [status |-> "OK", user |-> user]

\* get_admin_user: the role test reads the attribute UserRole.admin.
get_admin_user(cred) ==
    LET cu == get_current_user(cred)
    IN  IF cu.status # "OK" THEN cu
        ELSE IF UserRoleAttr("admin") = None
             THEN [status |-> "Internal", user |-> None]
             ELSE IF (CHOOSE u \in cu.user : TRUE).role \notin UserRoleAttr("admin")
                  THEN [status |-> "Forbidden", user |-> None]
                  ELSE cu

\* ------------------------------------------------------ app/models.py:44-103
\* The integer columns of Client (the Boolean columns carry no constraint).
ClientFields ==
    {"age", "gender", "work_experience", "canada_workex", "dep_num",
     "level_of_schooling", "reading_english_scale", "speaking_english_scale",
     "writing_english_scale", "numeracy_scale", "computer_scale", "housing",
     "income_source", "time_unemployed"}

Scales ==
    {"reading_english_scale", "speaking_english_scale",
     "writing_english_scale", "numeracy_scale", "computer_scale"}

\* app/models.py:129-135: the Boolean columns of ClientCase.
ServiceFlags ==
    {"employment_assistance", "life_stabilization", "retention_services",
     "specialized_services", "employment_related_financial_supports",
     "employer_financial_supports", "enhanced_referrals"}

\* The CheckConstraint of each column (NULL satisfies every CHECK).
CheckConstraint(column, v) ==
    CASE column = "age" -> v >= 18
      [] column = "gender" -> v = 1 \/ v = 2
      [] column \in {"work_experience", "canada_workex", "dep_num",
                     "time_unemployed"} -> v >= 0
      [] column = "level_of_schooling" -> v >= 1 /\ v <= 14
      [] column \in Scales -> v >= 0 /\ v <= 10
      [] column = "housing" -> v >= 1 /\ v <= 10
      [] column = "income_source" -> v >= 1 /\ v <= 11
      [] column = "success_rate" -> v >= 0 /\ v <= 100
      [] OTHER -> TRUE

\* A Client row: id and the integer columns, each NULL or a value.
EmptyClient == [c \in ClientFields |-> None]
ClientRow(id, f) == [id |-> id, f |-> f]

\* A ClientCase row; (client_id, user_id) is its primary key.
EmptyFlags == [g \in ServiceFlags |-> None]
CaseRow(client_id, user_id, flags, success_rate) ==
    [client_id |-> client_id, user_id |-> user_id, flags |-> flags,
     success_rate |-> success_rate]

ClientById(id) == {c \in clients : c.id = id}
UserById(id) == {u \in users : u.id = id}
CaseByKey(client_id, user_id) ==
    {k \in cases : k.client_id = client_id /\ k.user_id = user_id}

\* The database accepts a set of case rows only if the primary key is unique,
\* both foreign keys resolve and the CHECK holds (app/models.py:124-136).
CasesAccepted(cs, cl, us) ==
    /\ \A a, b \in cs :
         (a.client_id = b.client_id /\ a.user_id = b.user_id) => a = b
    /\ \A k \in cs : /\ \E c \in cl : c.id = k.client_id
                     /\ \E u \in us : u.id = k.user_id
                     /\ \A v \in k.success_rate : CheckConstraint("success_rate", v)

ClientsAccepted(cl) ==
    /\ \A a, b \in cl : a.id = b.id => a = b
    /\ \A c \in cl : \A col \in ClientFields :
         \A v \in c.f[col] : CheckConstraint(col, v)

\* ------------------------------------------ ClientService (not in the source)
\* A partial update is a set of <<column, value>> pairs, one per column given.
Given(input) == {p[1] : p \in input}
Merge(old, input) ==
    [col \in DOMAIN old |->
        IF col \in Given(input) THEN {p[2] : p \in {q \in input : q[1] = col}}
        ELSE old[col]]

\* The columns of an input whose value is outside the declared range.
Offending(input) == {p[1] : p \in {q \in input : ~CheckConstraint(q[1], q[2])}}

\* The result of a service call: a status, the stores after it, and the body.
Result(status, cl, cs, nid, body) ==
    [status |-> status, clients |-> cl, cases |-> cs, next_client_id |-> nid,
     body |-> body]
Fail(status) == Result(status, clients, cases, next_client_id, None)
Ok(body) == Result("OK", clients, cases, next_client_id, body)

RECURSIVE SortById(_)
SortById(cl) ==
    IF cl = {} THEN <<>>
    ELSE LET first == CHOOSE c \in cl : \A d \in cl : c.id <= d.id
         IN  <<first>> \o SortById(cl \ {first})

ClientService_create_client(input) ==
    IF Offending(input) # {} THEN Fail("ValidationError")
    ELSE LET row == ClientRow(next_client_id, Merge(EmptyClient, input))
         IN  IF ~ClientsAccepted(clients \cup {row}) THEN Fail("Internal")
             ELSE Result("OK", clients \cup {row}, cases, next_client_id + 1,
                         Some(row))

ClientService_get_client(id) ==
    IF ClientById(id) = {} THEN Fail("NotFound") ELSE Ok(ClientById(id))

\* A page of the clients in id order, with the number of clients in the store.
ClientService_get_clients(skip, limit) ==
    LET all == SortById(clients)
        from == IF skip < 0 THEN 1 ELSE skip + 1
        past == IF limit < 0 THEN from - 1 ELSE from - 1 + limit
        upto == IF past < Len(all) THEN past ELSE Len(all)
    IN  Ok(Some([items |-> SubSeq(all, from, upto),
                 total_count |-> Len(all)]))

ClientService_get_client_services(client_id) ==
    IF ClientById(client_id) = {} THEN Fail("NotFound")
    ELSE Ok({k \in cases : k.client_id = client_id})

ClientService_get_clients_by_success_rate(min_rate) ==
    Ok({c \in clients : \E k \in cases :
          k.client_id = c.id /\ \E v \in k.success_rate : v >= min_rate})

ClientService_get_clients_by_case_worker(user_id) ==
    Ok({c \in clients : \E k \in cases :
          k.client_id = c.id /\ k.user_id = user_id})

ClientService_get_clients_by_services(flags) ==
    Ok({c \in clients : \E k \in cases :
          /\ k.client_id = c.id
          /\ \A p \in flags : k.flags[p[1]] = Some(p[2])})

ClientService_get_clients_by_criteria(criteria) ==
    Ok({c \in clients : \A p \in criteria :
          IF p[1] = "age_min" THEN \E v \in c.f["age"] : v >= p[2]
          ELSE IF p[1] = "education_level"
               THEN c.f["level_of_schooling"] = Some(p[2])
               ELSE IF p[1] \in Scales THEN \E v \in c.f[p[1]] : v >= p[2]
                    ELSE c.f[p[1]] = Some(p[2])})

ClientService_update_client(id, input) ==
    IF Offending(input) # {} THEN Fail("ValidationError")
    ELSE IF ClientById(id) = {} THEN Fail("NotFound")
    ELSE LET old == CHOOSE c \in ClientById(id) : TRUE
             row == ClientRow(id, Merge(old.f, input))
             cl == (clients \ {old}) \cup {row}
         IN  IF ~ClientsAccepted(cl) THEN Fail("Internal")
             ELSE Result("OK", cl, cases, next_client_id, Some(row))

ClientService_update_client_services(client_id, user_id, input) ==
    IF Offending(input) # {} THEN Fail("ValidationError")
    ELSE IF CaseByKey(client_id, user_id) = {} THEN Fail("NotFound")
    ELSE LET old == CHOOSE k \in CaseByKey(client_id, user_id) : TRUE
             rate == Merge([success_rate |-> old.success_rate], input)
             row == CaseRow(client_id, user_id,
                            Merge(old.flags, input), rate.success_rate)
             cs == (cases \ {old}) \cup {row}
         IN  IF ~CasesAccepted(cs, clients, users) THEN Fail("Internal")
             ELSE Result("OK", clients, cs, next_client_id, Some(row))

ClientService_create_case_assignment(client_id, user_id) ==
    IF ClientById(client_id) = {} \/ UserById(user_id) = {} THEN Fail("NotFound")
    ELSE IF CaseByKey(client_id, user_id) # {} THEN Fail("Conflict")
    ELSE LET row == CaseRow(client_id, user_id, EmptyFlags, None)
         IN  IF ~CasesAccepted(cases \cup {row}, clients, users)
             THEN Fail("Conflict")
             ELSE Result("OK", clients, cases \cup {row}, next_client_id,
                         Some(row))

ClientService_delete_client(id) ==
    IF ClientById(id) = {} THEN Fail("NotFound")
    ELSE Result("OK", clients \ ClientById(id),
                {k \in cases : k.client_id # id}, next_client_id, None)

\* ------------------------------------------------------------- the response
\* last is the response of the request handled by the step just taken (Blank
\* after a step that handled none), with the request's arguments beside it.
Blank ==
    [op |-> "none", status |-> "none", cred |-> None, user |-> None,
     token |-> None, name |-> "", email |-> "", pw |-> "", data |-> None,
     ttl |-> None,
     at |-> 0, cid |-> 0, uid |-> 0, skip |-> 0, limit |-> 0,
     input |-> None, body |-> None]

\* ------------------------------------------------ what a caller can present
\* Tokens a caller can build without the server's key from the tokens it holds:
\* a token signed with another key, and a held token with its claims altered.
Forgeries(held) ==
    {jwt_encode([sub |-> Some("alice"), exp |-> None], OTHER_KEY)}
    \cup { [claims |-> [t.claims EXCEPT !.sub = Some("alice")], sig |-> t.sig] :
             t \in held }

Creds(held) == {None} \cup {Some(t) : t \in held \cup Forgeries(held)}

\* Inputs of the signing primitive.
TokenData == {[sub |-> Some("alice")], [sub |-> Some("carol")], [sub |-> None]}
Deltas == {None, Some(0), Some(ACCESS_TOKEN_EXPIRE_MINUTES), Some(1)}

\* ---------------------------------------------------------------- actions
\* The clock advances.
Tick ==
    /\ now < MaxTime
    /\ now' = now + 1
    /\ last' = Blank
    /\ UNCHANGED <<stores, tokens>>

\* A caller discards a token it holds (the server keeps no token state).
DropToken(tok) ==
    /\ tok \in tokens
    /\ tokens' = tokens \ {tok}
    /\ last' = Blank
    /\ UNCHANGED <<stores, now>>

\* POST /auth/token: login_for_access_token.
login_for_access_token(username, password) ==
    LET user == authenticate_user(username, password)
        access_token ==
            create_access_token([sub |-> {u.username : u \in user}],
                                Some(ACCESS_TOKEN_EXPIRE_MINUTES), now)
    IN  /\ now <= MaxIssueTime
        /\ user # None => Cardinality(tokens \cup {access_token}) <= MaxTokens
        /\ tokens' = IF user = None THEN tokens ELSE tokens \cup {access_token}
        /\ last' = [Blank EXCEPT !.op = "login", !.name = username,
                       !.pw = password, !.at = now,
                       !.status = IF user = None THEN "Unauthenticated" ELSE "OK",
                       !.user = user,
                       !.token = IF user = None THEN None ELSE Some(access_token)]
        /\ UNCHANGED <<stores, now>>

\* A direct call of the signing primitive create_access_token(data, delta).
IssueToken(data, expires_delta) ==
    LET tok == create_access_token(data, expires_delta, now)
    IN  /\ now <= MaxIssueTime
        /\ Cardinality(tokens \cup {tok}) <= MaxTokens
        /\ tokens' = tokens \cup {tok}
        /\ last' = [Blank EXCEPT !.op = "issue", !.data = Some(data),
                       !.ttl = expires_delta, !.at = now, !.status = "OK",
                       !.token = Some(tok)]
        /\ UNCHANGED <<stores, now>>

\* A request to an endpoint that does nothing but Depends(get_current_user).
ResolveIdentity(cred) ==
    LET cu == get_current_user(cred)
    IN  /\ last' = [Blank EXCEPT !.op = "resolve", !.cred = cred, !.at = now,
                       !.status = cu.status, !.user = cu.user]
        /\ UNCHANGED <<stores, now, tokens>>

\* ------------------------------------------------- app/clients/router.py
\* Each handler is modelled as its body and its dependencies are written.
\* The names the module uses without defining or importing them first
\* (status at line 132, ClientSearchCriteria at line 43) are taken as bound.
\* Sample request bodies: the boundary values of three constrained columns.
ClientInputs ==
    {{}} \cup {{<<"age", v>>} : v \in {17, 18}}
         \cup {{<<"housing", v>>} : v \in {0, 1, 10, 11}}
UpdateInputs == {{<<"age", v>>} : v \in {17, 18}}
CaseInputs ==
    {{<<"success_rate", v>>} : v \in {-1, 0, 100, 101}}
    \cup {{<<"employment_assistance", TRUE>>}}
CriteriaInputs == {{}, {<<"age_min", 18>>}}
FlagInputs == {{}, {<<"employment_assistance", TRUE>>}}
RateInputs == {-1, 0, 100}
ListInputs == {<<-1, 1>>, <<0, 0>>, <<0, 1>>, <<1, 1>>, <<0, 150>>, <<0, 151>>}
ClientIds == 1..MaxClients
UserIds == {1, 2, 3}
CaseWorkerIds == {2, 3}
UserInputs ==
    { [username |-> "alice", email |-> "carol@x.org", password |-> "pw",
       role |-> "CASE_WORKER"],
      [username |-> "carol", email |-> "alice@x.org", password |-> "pw",
       role |-> "CASE_WORKER"],
      [username |-> "carol", email |-> "carol@x.org", password |-> "pw",
       role |-> "CASE_WORKER"] }

SeedClients == {ClientRow(1, Merge(EmptyClient, {<<"age", 25>>}))}
SeedCases == {CaseRow(1, 2, EmptyFlags, None)}

\* The stores after a service call.
Apply(r) ==
    /\ clients' = r.clients
    /\ cases' = r.cases
    /\ next_client_id' = r.next_client_id

\* A dependency that failed ends the request with its status.
Guarded(dep, r) == IF dep.status # "OK" THEN Fail(dep.status) ELSE r

\* The response of a clients-router request; user is the user the credential
\* resolves to, whether or not the endpoint asked for it.
Response(op, cred, r) ==
    [Blank EXCEPT !.op = op, !.cred = cred, !.at = now, !.status = r.status,
                  !.body = r.body, !.user = get_current_user(cred).user]

\* The client-creation operation (no route in the clients router).
create_client(input) ==
    LET r == ClientService_create_client(input)
    IN  /\ next_client_id <= MaxClients
        /\ Apply(r)
        /\ last' = [Blank EXCEPT !.op = "create_client", !.input = input,
                       !.at = now, !.status = r.status, !.body = r.body]
        /\ UNCHANGED <<users, now, tokens>>

\* GET /clients/ with the bounds of the two Query parameters left out.
get_clients_unchecked(cred, skip, limit) ==
    LET r == ClientService_get_clients(skip, limit)
    IN  /\ Apply(r)
        /\ last' = [Response("list_clients", cred, r) EXCEPT
                       !.skip = skip, !.limit = limit]
        /\ UNCHANGED <<users, now, tokens>>

\* GET /clients/ : no dependency on the caller; skip >= 0, 1 <= limit <= 150.
get_clients(cred, skip, limit) ==
    LET r == IF skip < 0 \/ limit < 1 \/ limit > 150
             THEN Fail("ValidationError")
             ELSE ClientService_get_clients(skip, limit)
    IN  /\ Apply(r)
        /\ last' = [Response("list_clients", cred, r) EXCEPT
                       !.skip = skip, !.limit = limit]
        /\ UNCHANGED <<users, now, tokens>>

\* GET /clients/{client_id} : no dependency on the caller.
get_client(cred, client_id) ==
    LET r == ClientService_get_client(client_id)
    IN  /\ Apply(r)
        /\ last' = [Response("get_client", cred, r) EXCEPT !.cid = client_id]
        /\ UNCHANGED <<users, now, tokens>>

\* GET /clients/search/by-criteria : Depends(get_admin_user).
get_clients_by_criteria(cred, criteria) ==
    LET r == Guarded(get_admin_user(cred), ClientService_get_clients_by_criteria(criteria))
    IN  /\ Apply(r)
        /\ last' = [Response("search_by_criteria", cred, r) EXCEPT !.input = criteria]
        /\ UNCHANGED <<users, now, tokens>>

\* GET /clients/search/by-services : Depends(get_admin_user).
get_clients_by_services(cred, flags) ==
    LET r == Guarded(get_admin_user(cred), ClientService_get_clients_by_services(flags))
    IN  /\ Apply(r)
        /\ last' = [Response("search_by_services", cred, r) EXCEPT !.input = flags]
        /\ UNCHANGED <<users, now, tokens>>

\* GET /clients/{client_id}/services : Depends(get_admin_user).
get_client_services(cred, client_id) ==
    LET r == Guarded(get_admin_user(cred), ClientService_get_client_services(client_id))
    IN  /\ Apply(r)
        /\ last' = [Response("get_client_services", cred, r) EXCEPT !.cid = client_id]
        /\ UNCHANGED <<users, now, tokens>>

\* GET /clients/search/success-rate : Depends(get_admin_user); 0 <= min_rate <= 100.
get_clients_by_success_rate(cred, min_rate) ==
    LET r == Guarded(get_admin_user(cred),
                     IF min_rate < 0 \/ min_rate > 100
                     THEN Fail("ValidationError")
                     ELSE ClientService_get_clients_by_success_rate(min_rate))
    IN  /\ Apply(r)
        /\ last' = [Response("search_by_success_rate", cred, r) EXCEPT
                       !.input = {<<"min_rate", min_rate>>}]
        /\ UNCHANGED <<users, now, tokens>>

\* GET /clients/case-worker/{case_worker_id} : Depends(get_current_user).
get_clients_by_case_worker(cred, case_worker_id) ==
    LET r == Guarded(get_current_user(cred),
                     ClientService_get_clients_by_case_worker(case_worker_id))
    IN  /\ Apply(r)
        /\ last' = [Response("list_by_case_worker", cred, r) EXCEPT
                       !.uid = case_worker_id]
        /\ UNCHANGED <<users, now, tokens>>

\* PUT /clients/{client_id} : Depends(get_admin_user).
update_client(cred, client_id, client_data) ==
    LET r == Guarded(get_admin_user(cred), ClientService_update_client(client_id, client_data))
    IN  /\ Apply(r)
        /\ last' = [Response("update_client", cred, r) EXCEPT
                       !.cid = client_id, !.input = client_data]
        /\ UNCHANGED <<users, now, tokens>>

\* PUT /clients/{client_id}/services/{user_id} : Depends(get_current_user).
update_client_services(cred, client_id, user_id, service_update) ==
    LET r == Guarded(get_current_user(cred),
                     ClientService_update_client_services(client_id, user_id, service_update))
    IN  /\ Apply(r)
        /\ last' = [Response("update_case", cred, r) EXCEPT
                       !.cid = client_id, !.uid = user_id,
                       !.input = service_update]
        /\ UNCHANGED <<users, now, tokens>>

\* POST /clients/{client_id}/case-assignment : Depends(get_admin_user).
create_case_assignment(cred, client_id, case_worker_id) ==
    LET r == Guarded(get_admin_user(cred),
                     ClientService_create_case_assignment(client_id, case_worker_id))
    IN  /\ Apply(r)
        /\ last' = [Response("create_case_assignment", cred, r) EXCEPT
                       !.cid = client_id, !.uid = case_worker_id]
        /\ UNCHANGED <<users, now, tokens>>

\* DELETE /clients/{client_id} : Depends(get_admin_user).
delete_client(cred, client_id) ==
    LET r == Guarded(get_admin_user(cred), ClientService_delete_client(client_id))
    IN  /\ Apply(r)
        /\ last' = [Response("delete_client", cred, r) EXCEPT !.cid = client_id]
        /\ UNCHANGED <<users, now, tokens>>

\* POST /auth/users : Depends(get_admin_user), then the UserCreate validator
\* (which reads UserRole.admin and UserRole.case_worker), then the handler.
create_user_status(dep, user_data) ==
    IF dep.status # "OK" THEN dep.status
    ELSE IF UserRoleAttr("admin") = None \/ UserRoleAttr("case_worker") = None
         THEN "Internal"
    ELSE IF UserByName(user_data.username) # {} THEN "Conflict"
    ELSE IF {u \in users : u.email = user_data.email} # {} THEN "Conflict"
    ELSE "OK"

create_user(cred, user_data) ==
    LET status == create_user_status(get_admin_user(cred), user_data)
        id == Cardinality(users) + 1
        db_user == [id |-> id, username |-> user_data.username,
                    email |-> user_data.email,
                    hashed_password |-> get_password_hash(id, user_data.password),
                    role |-> user_data.role]
    IN  /\ users' = IF status = "OK" THEN users \cup {db_user} ELSE users
        /\ last' = [Blank EXCEPT !.op = "create_user", !.cred = cred, !.at = now,
                       !.name = user_data.username,
                       !.email = user_data.email, !.status = status,
                       !.user = get_current_user(cred).user]
        /\ UNCHANGED <<clients, cases, next_client_id, now, tokens>>

Init ==
    /\ users = SeedUsers
    /\ clients = SeedClients
    /\ cases = SeedCases
    /\ next_client_id = 2
    /\ now = 0
    /\ tokens = {}
    /\ last = Blank

NextAuth ==
    \/ Tick
    \/ \E tok \in tokens : DropToken(tok)
    \/ \E username \in LoginNames, password \in Passwords : login_for_access_token(username, password)
    \/ \E data \in TokenData, d \in Deltas : IssueToken(data, d)
    \/ \E cred \in Creds(tokens) : ResolveIdentity(cred)

SpecAuth == Init /\ [][NextAuth]_vars

\* The request handlers at one instant.
Next ==
    \/ \E tok \in tokens : DropToken(tok)
    \/ \E username \in LoginNames, password \in Passwords : login_for_access_token(username, password)
    \/ \E input \in ClientInputs : create_client(input)
    \/ \E cred \in Creds(tokens), page \in ListInputs :
         get_clients(cred, page[1], page[2])
    \/ \E cred \in Creds(tokens), id \in ClientIds : get_client(cred, id)
    \/ \E cred \in Creds(tokens), criteria \in CriteriaInputs :
         get_clients_by_criteria(cred, criteria)
    \/ \E cred \in Creds(tokens), flags \in FlagInputs :
         get_clients_by_services(cred, flags)
    \/ \E cred \in Creds(tokens), id \in ClientIds : get_client_services(cred, id)
    \/ \E cred \in Creds(tokens), min_rate \in RateInputs :
         get_clients_by_success_rate(cred, min_rate)
    \/ \E cred \in Creds(tokens), uid \in CaseWorkerIds : get_clients_by_case_worker(cred, uid)
    \/ \E cred \in Creds(tokens), id \in ClientIds, input \in UpdateInputs :
         update_client(cred, id, input)
    \/ \E cred \in Creds(tokens), id \in ClientIds, uid \in CaseWorkerIds, input \in CaseInputs :
         update_client_services(cred, id, uid, input)
    \/ \E cred \in Creds(tokens), id \in ClientIds, uid \in CaseWorkerIds :
         create_case_assignment(cred, id, uid)
    \/ \E cred \in Creds(tokens), id \in ClientIds : delete_client(cred, id)
    \/ \E cred \in Creds(tokens), user_data \in UserInputs : create_user(cred, user_data)

Spec == Init /\ [][Next]_vars

\* The listing endpoint alone, with the one operation that changes the client
\* store for some caller and the callers' tokens.
NextList ==
    \/ \E tok \in tokens : DropToken(tok)
    \/ \E username \in LoginNames, password \in Passwords : login_for_access_token(username, password)
    \/ \E input \in ClientInputs : create_client(input)
    \/ \E cred \in Creds(tokens), page \in ListInputs :
         get_clients(cred, page[1], page[2])

SpecList == Init /\ [][NextList]_vars

\* ------------------------------------------------------------------ claims
HasRole(r, role) == \E u \in r.user : u.role = role
AdminOps == {"create_user", "create_case_assignment", "delete_client"}
ReadOps ==
    {"list_clients", "get_client", "search_by_criteria", "search_by_services",
     "get_client_services", "search_by_success_rate", "list_by_case_worker"}
ServiceStatuses == {"OK", "NotFound", "Conflict", "ValidationError"}

\* C1: a create_case_assignment call by an admin for an existing client and
\* an existing user answers OK (the first call for the pair) or Conflict (a
\* later one) and leaves exactly one row for the pair; no pair ever has two
\* rows.
C1_OneSuccessOneConflict ==
    /\ \A a, b \in cases :
         (a.client_id = b.client_id /\ a.user_id = b.user_id) => a = b
    /\ (/\ last.op = "create_case_assignment"
        /\ HasRole(last, "ADMIN")
        /\ ClientById(last.cid) # {}
        /\ UserById(last.uid) # {})
       => /\ last.status \in {"OK", "Conflict"}
          /\ Cardinality(CaseByKey(last.cid, last.uid)) = 1

C3_ReferentialIntegrity ==
    /\ \A k \in cases : ClientById(k.client_id) # {} /\ UserById(k.user_id) # {}
    /\ (/\ last.op = "create_case_assignment"
        /\ HasRole(last, "ADMIN")
        /\ (ClientById(last.cid) = {} \/ UserById(last.uid) = {}))
       => last.status = "NotFound"

\* C4: create_client, update_client (by an admin) and update_case (by an
\* authenticated caller) answer ValidationError when a supplied value is out
\* of range, and every stored value is within its range.
C4_OutOfRangeRejected ==
    /\ ClientsAccepted(clients)
    /\ \A k \in cases : \A v \in k.success_rate : CheckConstraint("success_rate", v)
    /\ (/\ Offending(last.input) # {}
        /\ \/ last.op = "create_client"
           \/ last.op = "update_client" /\ HasRole(last, "ADMIN")
           \/ last.op = "update_case" /\ last.user # None)
       => last.status = "ValidationError"

\* C5: an admin-only operation called by a case worker answers Forbidden, and
\* called by an admin it passes the role check (the service answers).
C5_AdminOnly ==
    last.op \in AdminOps =>
        /\ HasRole(last, "CASE_WORKER") => last.status = "Forbidden"
        /\ HasRole(last, "ADMIN") => last.status \in ServiceStatuses

\* C6: a read operation or update_case called with a credential that resolves
\* to no user answers Unauthenticated and returns no data.
C6_ReadsNeedIdentity ==
    (last.op \in ReadOps \cup {"update_case"} /\ last.user = None)
        => last.status = "Unauthenticated" /\ last.body = None

\* The token of a credential issued under the server's key.
Signed(cred) == \A t \in cred : t.sig = Sign(t.claims, SECRET_KEY)
SubjectOf(cred) == UNION {t.claims.sub : t \in cred}
KnownSubject(cred) == \E n \in SubjectOf(cred) : UserByName(n) # {}

\* C7: a successful login for username u issues a token whose subject is u
\* and which resolves to u at once; a token issued by the server that is
\* presented before its expiry and names a stored user resolves to that user;
\* no credential resolves to a user other than its subject.
C7_RoundTrip ==
    /\ (last.op = "login" /\ last.status = "OK")
       => /\ SubjectOf(last.token) = {last.name}
          /\ get_current_user(last.token).status = "OK"
          /\ get_current_user(last.token).user = UserByName(last.name)
    /\ (/\ last.op = "resolve"
        /\ last.cred \subseteq tokens
        /\ last.cred # None
        /\ \A t \in last.cred : \A e \in t.claims.exp : last.at < e
        /\ KnownSubject(last.cred))
       => /\ last.status = "OK"
          /\ last.user # None
    /\ (last.op = "resolve" /\ last.status = "OK")
       => \A u \in last.user : SubjectOf(last.cred) = {u.username}

\* C7 witness: bob's login token, issued at minute 0, resolved later.
C7_Witness ==
    /\ last.op = "resolve"
    /\ last.status = "OK"
    /\ last.at > 0
    /\ \E u \in last.user : u.username = "bob"
    /\ \E t \in last.cred : t.claims.exp = Some(ACCESS_TOKEN_EXPIRE_MINUTES)

\* C8: login succeeds exactly when a user of that name exists and the
\* password hashes, under that user's salt, to the stored hash; otherwise the
\* answer is 401 and no token is issued.
C8_AuthenticateIff ==
    last.op = "login" =>
        /\ last.status = "OK" <=>
             \E u \in users :
                /\ u.username = last.name
                /\ u.hashed_password =
                     get_password_hash(u.hashed_password[2], last.pw)
        /\ last.status \in {"OK", "Unauthenticated"}
        /\ last.status = "Unauthenticated" => last.token = None /\ last.token \subseteq tokens
        /\ last.status = "OK" => last.token # None /\ last.token \subseteq tokens

\* C8 witness: a known user with another user's password is refused.
C8_Witness ==
    /\ last.op = "login"
    /\ last.name = "alice"
    /\ last.pw = "wrong"
    /\ last.status = "Unauthenticated"

\* The conditions of C9 other than the one on time.
C9_Others(cred) ==
    /\ cred # None
    /\ Signed(cred)
    /\ SubjectOf(cred) # {}
    /\ KnownSubject(cred)

\* C9 as claimed: get_current_user answers OK exactly when the signature is
\* valid, the time is strictly before the expiry, and the subject is present
\* and names a stored user; otherwise it answers 401 with no identity.
C9_StrictlyBeforeExpiry ==
    last.op = "resolve" =>
        /\ last.status = "OK" <=>
             /\ C9_Others(last.cred)
             /\ \A t \in last.cred : \A e \in t.claims.exp : last.at < e
        /\ last.status \in {"OK", "Unauthenticated"}
        /\ last.status = "Unauthenticated" => last.user = None

\* C9 as amended: the same with the time not after the expiry (a token is
\* still accepted at the instant of its expiry).
C9_NotAfterExpiry ==
    last.op = "resolve" =>
        /\ last.status = "OK" <=>
             /\ C9_Others(last.cred)
             /\ \A t \in last.cred : \A e \in t.claims.exp : last.at <= e
        /\ last.status \in {"OK", "Unauthenticated"}
        /\ last.status = "Unauthenticated" => last.user = None

\* C9 witness: a token resolved at the very minute of its expiry.
C9_Witness ==
    /\ last.op = "resolve"
    /\ last.status = "OK"
    /\ \E t \in last.cred : t.claims.exp = Some(last.at)

\* C10: the signing primitive stamps exp = issue time + ttl for every ttl
\* supplied and issue time + 15 only when none is; login stamps issue time +
\* 30; a login token is accepted before its expiry and refused after it.
C10_ExpiryIsIssuePlusTtl ==
    /\ last.op = "issue"
       => \A t \in last.token :
            t.claims.exp =
              Some(last.at + (IF last.ttl = None THEN FALLBACK_EXPIRE_MINUTES
                              ELSE CHOOSE d \in last.ttl : TRUE))
    /\ (last.op = "login" /\ last.status = "OK")
       => \A t \in last.token :
            t.claims.exp = Some(last.at + ACCESS_TOKEN_EXPIRE_MINUTES)
    /\ (last.op = "resolve" /\ C9_Others(last.cred))
       => \A t \in last.cred : \A e \in t.claims.exp :
            /\ last.at < e => last.status = "OK"
            /\ last.at > e => last.status = "Unauthenticated"

\* No two stored users share a username or an email.
UsersUnique(us) ==
    \A a, b \in us : (a.username = b.username \/ a.email = b.email) => a = b

\* C11: usernames and emails are unique among the stored users in every
\* state, and a create_user call by an admin with a username or an email that
\* a stored user already has answers Conflict (400) and leaves the users
\* unchanged.
C11_DuplicateRejected ==
    /\ []UsersUnique(users)
    /\ [][(/\ last'.op = "create_user"
           /\ HasRole(last', "ADMIN")
           /\ \/ UserByName(last'.name) # {}
              \/ {u \in users : u.email = last'.email} # {})
          => (last'.status = "Conflict" /\ users' = users)]_vars

\* The number of clients whose id is below that of c.
Rank(c) == Cardinality({d \in clients : d.id < c.id})

Satisfies(c, p) ==
    IF p[1] = "age_min" THEN \E v \in c.f["age"] : v >= p[2]
    ELSE IF p[1] = "education_level" THEN c.f["level_of_schooling"] = Some(p[2])
    ELSE IF p[1] \in Scales THEN \E v \in c.f[p[1]] : v >= p[2]
    ELSE c.f[p[1]] = Some(p[2])

\* C13: search_by_criteria called by an admin answers OK with exactly the
\* clients that satisfy every supplied criterion (all clients when none is
\* supplied), and search_by_services called by an admin answers OK with
\* exactly the clients that have one case row meeting every supplied flag.
C13_SparseSearch ==
    /\ (last.op = "search_by_criteria" /\ HasRole(last, "ADMIN"))
       => /\ last.status = "OK"
          /\ last.body = {c \in clients : \A p \in last.input : Satisfies(c, p)}
          /\ last.input = {} => last.body = clients
    /\ (last.op = "search_by_services" /\ HasRole(last, "ADMIN"))
       => /\ last.status = "OK"
          /\ last.body =
               {c \in clients : \E k \in cases :
                  /\ k.client_id = c.id
                  /\ \A p \in last.input : k.flags[p[1]] = Some(p[2])}

====
